---- MODULE Spec2Model ----
(***************************************************************************)
(* Pad: at-rest encryption of drafts.  Two key layers (device key,         *)
(* password key), the AES-GCM envelope, the session (sessionStorage), and  *)
(* the encrypted draft collection (localStorage).                          *)
(*                                                                         *)
(* services/gemini.ts holds the crypto service (lines 34-333) and          *)
(* services/storage.ts the encrypted draft store (lines 92-341).           *)
(*                                                                         *)
(* JavaScript strings are modelled as records: a text is [chars |-> s], s  *)
(* a sequence of code points; the base64 string that encrypt() returns is  *)
(* the record [b64 |-> buffer] of the bytes that went into it.  AES-GCM is *)
(* symbolic: a sealed value opens under the key and iv that sealed it and  *)
(* under no other.                                                         *)
(***************************************************************************)
EXTENDS Integers, Sequences, FiniteSets, TLC

VARIABLES
    idbDeviceKey,     \* IndexedDB 'keys' store, entry 'device-key'
    idbPasswordHash,  \* IndexedDB 'keys' store, entry 'password-hash'
    cachedDeviceKey,  \* module variable cachedDeviceKey
    sessionItem,      \* sessionStorage entry 'pad-session-key'
    localDrafts,      \* localStorage entry STORAGE_KEY
    localSettings,    \* localStorage entry SETTINGS_KEY
    now,              \* Date.now()
    nKeys,            \* device keys generated so far (each one is new)
    nSalts,           \* salts drawn so far (each one is new)
    last,             \* the call that completed last, with what it returned
    saved,            \* per draft id, the text of the last save that completed
    configured,       \* the password given to the last setupPassword
    task,             \* the asynchronous calls in flight (interleaved runs)
    race              \* the collection when the calls in flight were started

vars == <<idbDeviceKey, idbPasswordHash, cachedDeviceKey, sessionItem,
          localDrafts, localSettings, now, nKeys, nSalts, last, saved,
          configured, task, race>>

keyStore == <<idbDeviceKey, cachedDeviceKey, nKeys>>
passwordStore == <<idbPasswordHash, nSalts, configured>>
inFlight == <<task, race>>

-----------------------------------------------------------------------------
(* Bounds and input domains *)

MaxNow == 3
MaxSetups == 2
MaxKeys == 2

DraftIds == {"d1", "d2", "d3"}
Procs == {"p1", "p2"}
IVs == {"iv1"}

null == [none |-> TRUE]

Str(s) == [chars |-> s]

\* " ", "a", "b\n", "\uFEFFa"
Texts == {Str(<<32>>), Str(<<97>>), Str(<<98, 10>>), Str(<<65279, 97>>)}

\* "p", "q"
Passwords == {Str(<<112>>), Str(<<113>>)}

-----------------------------------------------------------------------------
(* Strings *)

\* ECMAScript WhiteSpace and LineTerminator code points, what trim() strips
WhiteSpace ==
    {9, 10, 11, 12, 13, 32, 160, 5760, 8232, 8233, 8239, 8287, 12288, 65279}
        \cup (8192 .. 8202)

RECURSIVE TrimStart(_)
TrimStart(s) ==
    IF s # <<>> /\ Head(s) \in WhiteSpace THEN TrimStart(Tail(s)) ELSE s

RECURSIVE TrimEnd(_)
TrimEnd(s) ==
    IF s # <<>> /\ s[Len(s)] \in WhiteSpace
    THEN TrimEnd(SubSeq(s, 1, Len(s) - 1)) ELSE s

trim(str) == Str(TrimEnd(TrimStart(str.chars)))

\* the emptiness test without the trim
IsBlank_NoTrim(str) == str.chars = <<>>

\* !content.trim()
IsBlank(str) == trim(str).chars = <<>>

slice(str, from, to) ==
    Str(SubSeq(str.chars, from + 1, IF to < Len(str.chars) THEN to ELSE Len(str.chars)))

\* .replace(/\n/g, ' ')
replaceNewlines(str) ==
    Str([i \in 1 .. Len(str.chars) |-> IF str.chars[i] = 10 THEN 32 ELSE str.chars[i]])

\* TextEncoder.encode: UTF-8; an unpaired surrogate is encoded as U+FFFD
RECURSIVE Utf8Char(_)
Utf8Char(c) ==
    IF c \in 55296 .. 57343 THEN Utf8Char(65533)
    ELSE IF c < 128 THEN <<c>>
    ELSE IF c < 2048 THEN <<192 + (c \div 64), 128 + (c % 64)>>
    ELSE IF c < 65536
        THEN <<224 + (c \div 4096), 128 + ((c \div 64) % 64), 128 + (c % 64)>>
    ELSE <<240 + (c \div 262144), 128 + ((c \div 4096) % 64),
           128 + ((c \div 64) % 64), 128 + (c % 64)>>

RECURSIVE Utf8(_)
Utf8(s) == IF s = <<>> THEN <<>> ELSE Utf8Char(Head(s)) \o Utf8(Tail(s))

\* UTF-8 decoding of well-formed input; any other byte decodes as U+FFFD
RECURSIVE Utf8Decode(_)
Utf8Decode(b) ==
    IF b = <<>> THEN <<>>
    ELSE IF b[1] < 128 THEN <<b[1]>> \o Utf8Decode(Tail(b))
    ELSE IF b[1] \in 192 .. 223 /\ Len(b) >= 2
        THEN <<(b[1] - 192) * 64 + (b[2] - 128)>> \o Utf8Decode(SubSeq(b, 3, Len(b)))
    ELSE IF b[1] \in 224 .. 239 /\ Len(b) >= 3
        THEN <<(b[1] - 224) * 4096 + (b[2] - 128) * 64 + (b[3] - 128)>>
                 \o Utf8Decode(SubSeq(b, 4, Len(b)))
    ELSE IF b[1] \in 240 .. 247 /\ Len(b) >= 4
        THEN <<(b[1] - 240) * 262144 + (b[2] - 128) * 4096
                    + (b[3] - 128) * 64 + (b[4] - 128)>>
                 \o Utf8Decode(SubSeq(b, 5, Len(b)))
    ELSE <<65533>> \o Utf8Decode(Tail(b))

\* new TextEncoder().encode(str).  A base64 string is ASCII: its bytes stand
\* for the string itself.
TextEncode(str) ==
    IF "chars" \in DOMAIN str THEN [utf8 |-> Utf8(str.chars)] ELSE [ascii |-> str]

\* new TextDecoder().decode(bytes): ignoreBOM is false by default, so a
\* leading U+FEFF of the decoded text is dropped.
TextDecode(bytes) ==
    IF "utf8" \in DOMAIN bytes
    THEN LET s == Utf8Decode(bytes.utf8)
         IN  Str(IF s # <<>> /\ Head(s) = 65279 THEN Tail(s) ELSE s)
    ELSE bytes.ascii

-----------------------------------------------------------------------------
(* Envelope codec *)

Failure == [error |-> "OperationError"]

Failed(v) == "error" \in DOMAIN v

\* bufferToBase64 / base64ToBuffer: btoa and atob are inverse on byte buffers
bufferToBase64(buffer) == [b64 |-> buffer]

IsBase64(str) == "b64" \in DOMAIN str

base64ToBuffer(base64) == base64.b64

\* crypto.subtle.encrypt({name: 'AES-GCM', iv}, key, data): ciphertext and tag
AesGcmEncrypt(iv, key, data) == [k |-> key, n |-> iv, d |-> data]

\* crypto.subtle.decrypt: the data, or Failure when the tag does not verify
AesGcmDecrypt(iv, key, encrypted) ==
    IF "k" \in DOMAIN encrypted /\ encrypted.k = key /\ encrypted.n = iv
    THEN encrypted.d
    ELSE Failure

\* encrypt(plaintext, key), with the iv that getRandomValues drew
encrypt(plaintext, key, iv) ==
    LET encoded == TextEncode(plaintext)
        encrypted == AesGcmEncrypt(iv, key, encoded)
        combined == [iv |-> iv, rest |-> encrypted]
    IN  bufferToBase64(combined)

\* the decryption whose failure is swallowed and read as the empty text
decrypt_FailureAsEmpty(ciphertext, key) ==
    IF ~IsBase64(ciphertext) \/ "iv" \notin DOMAIN base64ToBuffer(ciphertext)
    THEN Str(<<>>)
    ELSE LET combined == base64ToBuffer(ciphertext)
             decrypted == AesGcmDecrypt(combined.iv, key, combined.rest)
         IN  IF Failed(decrypted) THEN Str(<<>>) ELSE TextDecode(decrypted)

\* decrypt(ciphertext, key): the text, or Failure when atob or AES-GCM throws.
\* A text that is no output of bufferToBase64 either makes atob throw or
\* decodes to bytes that carry no valid tag.
decrypt(ciphertext, key) ==
    IF ~IsBase64(ciphertext) \/ "iv" \notin DOMAIN base64ToBuffer(ciphertext)
    THEN Failure
    ELSE LET combined == base64ToBuffer(ciphertext)
             decrypted == AesGcmDecrypt(combined.iv, key, combined.rest)
         IN  IF Failed(decrypted) THEN Failure ELSE TextDecode(decrypted)

-----------------------------------------------------------------------------
(* Key manager *)

\* generateDeviceKey: the n-th key generated, unlike every other key
generateDeviceKey(n) == [dev |-> n]

exportKey(key) == bufferToBase64([raw |-> key])

importKey(keyData) == base64ToBuffer(keyData).raw

\* a key that depends on neither the password nor the salt
deriveKeyFromPassword_Fixed(password, salt) ==
    [pbkdf2 |-> TextEncode(Str(<<>>)), salt |-> 0]

\* deriveKeyFromPassword: PBKDF2 over the UTF-8 bytes of the password
deriveKeyFromPassword(password, salt) ==
    [pbkdf2 |-> TextEncode(password), salt |-> salt]

\* 'pad-verification'
VerificationText ==
    Str(<<112, 97, 100, 45, 118, 101, 114, 105, 102, 105, 99, 97, 116, 105, 111, 110>>)

\* getDeviceKey run to completion: the key returned and what it leaves in
\* the cache, in IndexedDB and in the count of generated keys
GetDeviceKey(cached, stored, n) ==
    IF cached # null
    THEN [key |-> cached, cached |-> cached, stored |-> stored, n |-> n]
    ELSE IF stored # null
    THEN [key |-> importKey(stored), cached |-> importKey(stored),
          stored |-> stored, n |-> n]
    ELSE LET newKey == generateDeviceKey(n + 1)
         IN  [key |-> newKey, cached |-> newKey, stored |-> exportKey(newKey),
              n |-> n + 1]

\* the hashData that setupPassword saves
HashData(password, salt, iv) ==
    LET key == deriveKeyFromPassword(password, salt)
        encrypted == AesGcmEncrypt(iv, key, TextEncode(VerificationText))
    IN  [salt |-> bufferToBase64(salt), iv |-> bufferToBase64(iv),
         encrypted |-> bufferToBase64(encrypted)]

\* the marker compared with a misspelt literal
MarkerOpens_WrongLiteral(password, hashData) ==
    LET salt == base64ToBuffer(hashData.salt)
        iv == base64ToBuffer(hashData.iv)
        encrypted == base64ToBuffer(hashData.encrypted)
        key == deriveKeyFromPassword(password, salt)
        decrypted == AesGcmDecrypt(iv, key, encrypted)
    IN  IF Failed(decrypted) THEN FALSE
        ELSE TextDecode(decrypted) = Str(<<112, 97, 100>>)

\* the key derived from the stored salt alone
MarkerOpens_IgnoresPassword(password, hashData) ==
    LET salt == base64ToBuffer(hashData.salt)
        iv == base64ToBuffer(hashData.iv)
        encrypted == base64ToBuffer(hashData.encrypted)
        key == encrypted.k
        decrypted == AesGcmDecrypt(iv, key, encrypted)
    IN  IF Failed(decrypted) THEN FALSE
        ELSE TextDecode(decrypted) = VerificationText

\* verifyPassword's try block: TRUE when the marker opens and reads back
MarkerOpens(password, hashData) ==
    LET salt == base64ToBuffer(hashData.salt)
        iv == base64ToBuffer(hashData.iv)
        encrypted == base64ToBuffer(hashData.encrypted)
        key == deriveKeyFromPassword(password, salt)
        decrypted == AesGcmDecrypt(iv, key, encrypted)
    IN  IF Failed(decrypted) THEN FALSE
        ELSE TextDecode(decrypted) = VerificationText

-----------------------------------------------------------------------------
(* Session *)

\* the session written without the salt of the password record
SessionData_NoSalt(password, salt) == [password |-> password, salt |-> bufferToBase64(0)]

\* storeSessionKey: the value written to sessionStorage
SessionData(password, salt) == [password |-> password, salt |-> bufferToBase64(salt)]

\* getSessionPasswordKey
getSessionPasswordKey(item) ==
    IF item = null THEN null
    ELSE deriveKeyFromPassword(item.password, base64ToBuffer(item.salt))

\* isSessionUnlocked
isSessionUnlocked(item) == item # null

-----------------------------------------------------------------------------
(* Draft store *)

\* 14 * 24 * 60 * 60 * 1000
DRAFT_RETENTION_MS == 14 * 24 * 60 * 60 * 1000

\* the snippet literal of a protected note (U+1F512, ' Protected note')
ProtectedNote ==
    Str(<<128274, 32, 80, 114, 111, 116, 101, 99, 116, 101, 100, 32, 110, 111, 116, 101>>)

\* the snippet literal of a record that does not decrypt (U+26A0 U+FE0F,
\* ' Unable to decrypt')
UnableToDecrypt ==
    Str(<<9888, 65039, 32, 85, 110, 97, 98, 108, 101, 32, 116, 111, 32, 100, 101,
          99, 114, 121, 112, 116>>)

SnippetLength == 100

\* The item under STORAGE_KEY is absent (null), the JSON text of an array of
\* records ([json |-> the array]), a text that JSON.parse rejects
\* ([unparsable |-> TRUE]), or the JSON text of a value that is no array of
\* records ([parsed |-> the value]).

\* loadRawDrafts: [] when the item is missing or does not parse, else
\* whatever JSON.parse returns
loadRawDrafts(stored) ==
    IF stored = null THEN <<>>
    ELSE IF "unparsable" \in DOMAIN stored THEN <<>>
    ELSE IF "parsed" \in DOMAIN stored THEN stored.parsed
    ELSE stored.json

\* what loadRawDrafts returns has findIndex, find, filter and map, and its
\* elements have the fields that the callbacks read
ParsesToArray(stored) == "parsed" \notin DOMAIN stored

\* the error of a call on a value that has no such method, or of a field
\* read on null
TypeError == [error |-> "TypeError"]

\* saveRawDrafts: the item written
saveRawDrafts(drafts) == [json |-> drafts]

\* rawDrafts.findIndex(d => d.id === id), 0 when there is none
findIndex(rawDrafts, id) ==
    IF \E i \in 1 .. Len(rawDrafts) : rawDrafts[i].id = id
    THEN CHOOSE i \in 1 .. Len(rawDrafts) :
             /\ rawDrafts[i].id = id
             /\ \A j \in 1 .. (i - 1) : rawDrafts[j].id # id
    ELSE 0

RECURSIVE filter(_, _)
\* drafts.filter(d => keep[d]), keep a set of records
filter(drafts, keep) ==
    IF drafts = <<>> THEN <<>>
    ELSE IF Head(drafts) \in keep
        THEN <<Head(drafts)>> \o filter(Tail(drafts), keep)
        ELSE filter(Tail(drafts), keep)

Range(seq) == {seq[i] : i \in 1 .. Len(seq)}

\* the password layer added without the check for a missing key
addPasswordProtection_NoCheck(content, item, iv) ==
    encrypt(content, getSessionPasswordKey(item), iv)

\* addPasswordProtection: throws when the session holds no key
addPasswordProtection(content, item, iv) ==
    LET passwordKey == getSessionPasswordKey(item)
    IN  IF passwordKey = null THEN [error |-> "Session not unlocked"]
        ELSE encrypt(content, passwordKey, iv)

\* the password layer opened whatever the session holds
removePasswordProtection_NoSession(encrypted, item) ==
    IF ~IsBase64(encrypted) \/ "iv" \notin DOMAIN base64ToBuffer(encrypted)
    THEN Failure
    ELSE decrypt(encrypted, base64ToBuffer(encrypted).rest.k)

\* removePasswordProtection
removePasswordProtection(encrypted, item) ==
    LET passwordKey == getSessionPasswordKey(item)
    IN  IF passwordKey = null THEN [error |-> "Session not unlocked"]
        ELSE decrypt(encrypted, passwordKey)

\* the content stored without the password layer
ContentToStore_Plain(content, isProtected, item, iv) == content

\* saveDraft, lines 233-239: the content before the device-key layer
ContentToStore(content, isProtected, item, iv) ==
    IF isProtected THEN addPasswordProtection(content, item, iv) ELSE content

\* the placeholder of a protected note followed by the start of its text
SnippetText_PlaceholderAndStart(content, isProtected) ==
    IF isProtected THEN Str(ProtectedNote.chars \o slice(content, 0, 1).chars)
    ELSE replaceNewlines(slice(content, 0, SnippetLength))

\* the snippet taken from the text of protected notes too
SnippetText_FromContent(content, isProtected) ==
    replaceNewlines(slice(content, 0, SnippetLength))

\* saveDraft, lines 245-247
SnippetText(content, isProtected) ==
    IF isProtected THEN ProtectedNote
    ELSE replaceNewlines(slice(content, 0, SnippetLength))

\* the upsert without the search for an existing record
Upsert_AlwaysPrepend(rawDrafts, id, encryptedContent, encryptedSnippet, isProtected, createdAt, t) ==
    <<[id |-> id,
       content |-> encryptedContent,
       createdAt |-> IF createdAt # 0 THEN createdAt ELSE t,
       lastUpdated |-> t,
       snippet |-> encryptedSnippet,
       isProtected |-> isProtected]>> \o rawDrafts

\* the upsert that moves a replaced record to the front
Upsert_MoveToFront(rawDrafts, id, encryptedContent, encryptedSnippet, isProtected, createdAt, t) ==
    LET existingIndex == findIndex(rawDrafts, id)
        newDraft == [id |-> id,
                     content |-> encryptedContent,
                     createdAt |-> IF existingIndex > 0
                                   THEN rawDrafts[existingIndex].createdAt
                                   ELSE (IF createdAt # 0 THEN createdAt ELSE t),
                     lastUpdated |-> t,
                     snippet |-> encryptedSnippet,
                     isProtected |-> isProtected]
    IN  <<newDraft>> \o SelectSeq(rawDrafts, LAMBDA d : d.id # id)

\* the upsert that takes createdAt from the argument on every save
Upsert_HintWins(rawDrafts, id, encryptedContent, encryptedSnippet, isProtected, createdAt, t) ==
    LET existingIndex == findIndex(rawDrafts, id)
        newDraft == [id |-> id,
                     content |-> encryptedContent,
                     createdAt |-> IF createdAt # 0 THEN createdAt
                                   ELSE IF existingIndex > 0
                                       THEN rawDrafts[existingIndex].createdAt
                                       ELSE t,
                     lastUpdated |-> t,
                     snippet |-> encryptedSnippet,
                     isProtected |-> isProtected]
    IN  IF existingIndex > 0
        THEN [rawDrafts EXCEPT ![existingIndex] = newDraft]
        ELSE <<newDraft>> \o rawDrafts

\* saveDraft, lines 250-265: the collection with the new record put in.
\* createdAt is the optional argument, 0 when it is not given (0 is falsy).
Upsert(rawDrafts, id, encryptedContent, encryptedSnippet, isProtected, createdAt, t) ==
    LET existingIndex == findIndex(rawDrafts, id)
        newDraft == [id |-> id,
                     content |-> encryptedContent,
                     createdAt |-> IF existingIndex > 0
                                   THEN rawDrafts[existingIndex].createdAt
                                   ELSE (IF createdAt # 0 THEN createdAt ELSE t),
                     lastUpdated |-> t,
                     snippet |-> encryptedSnippet,
                     isProtected |-> isProtected]
    IN  IF existingIndex > 0
        THEN [rawDrafts EXCEPT ![existingIndex] = newDraft]
        ELSE <<newDraft>> \o rawDrafts

\* the filter that drops the first record as well
RemoveId_AndFirst(rawDrafts, id) ==
    filter(rawDrafts, {d \in Range(rawDrafts) : d.id # id /\ d # rawDrafts[1]})

\* deleteDraft, line 275
RemoveId(rawDrafts, id) ==
    filter(rawDrafts, {d \in Range(rawDrafts) : d.id # id})

\* The item under SETTINGS_KEY is absent (null), the JSON text of an object
\* ([json |-> the object]), a text that JSON.parse rejects
\* ([unparsable |-> TRUE]), or the JSON text of a value that is no object,
\* such as 'null' ([parsed |-> the value]).

\* getRetentionPeriod
getRetentionPeriod(stored) ==
    IF stored = null THEN DRAFT_RETENTION_MS
    ELSE IF "json" \notin DOMAIN stored THEN DRAFT_RETENTION_MS
    ELSE IF "retentionMs" \in DOMAIN stored.json THEN stored.json.retentionMs
    ELSE DRAFT_RETENTION_MS

\* the sweep that keeps a record whose age equals the retention period
FreshDrafts_Inclusive(rawDrafts, t, retentionMs) ==
    filter(rawDrafts, {d \in Range(rawDrafts) : (t - d.lastUpdated) <= retentionMs})

\* cleanupOldDrafts, line 310
FreshDrafts(rawDrafts, t, retentionMs) ==
    filter(rawDrafts, {d \in Range(rawDrafts) : (t - d.lastUpdated) < retentionMs})

\* the record presented without the inner catch
Present_NoCatch(d, deviceKey, sessionUnlocked) ==
    LET decrypted == decrypt(d.snippet, deviceKey)
        snippet == IF d.isProtected /\ ~sessionUnlocked /\ ~Failed(decrypted)
                   THEN ProtectedNote
                   ELSE decrypted
    IN  [id |-> d.id, content |-> d.content, createdAt |-> d.createdAt,
         lastUpdated |-> d.lastUpdated, snippet |-> snippet,
         isProtected |-> d.isProtected]

\* getDrafts, lines 155-184: one record as the listing presents it
Present(d, deviceKey, sessionUnlocked) ==
    LET decrypted == decrypt(d.snippet, deviceKey)
        snippet == IF Failed(decrypted) THEN UnableToDecrypt
                   ELSE IF d.isProtected /\ ~sessionUnlocked THEN ProtectedNote
                   ELSE decrypted
    IN  [id |-> d.id, content |-> d.content, createdAt |-> d.createdAt,
         lastUpdated |-> d.lastUpdated, snippet |-> snippet,
         isProtected |-> d.isProtected]

RECURSIVE insertSorted_Ascending(_, _)
\* the comparison turned round: a.lastUpdated - b.lastUpdated
insertSorted_Ascending(sorted, d) ==
    IF sorted = <<>> THEN <<d>>
    ELSE IF Head(sorted).lastUpdated - d.lastUpdated > 0
        THEN <<d>> \o sorted
        ELSE <<Head(sorted)>> \o insertSorted_Ascending(Tail(sorted), d)

RECURSIVE insertSorted(_, _)
\* d put after every record that does not sort after it
insertSorted(sorted, d) ==
    IF sorted = <<>> THEN <<d>>
    ELSE IF d.lastUpdated - Head(sorted).lastUpdated > 0
        THEN <<d>> \o sorted
        ELSE <<Head(sorted)>> \o insertSorted(Tail(sorted), d)

RECURSIVE sortByLastUpdated(_)
\* drafts.sort((a, b) => b.lastUpdated - a.lastUpdated); the sort is stable
sortByLastUpdated(drafts) ==
    IF drafts = <<>> THEN <<>>
    ELSE insertSorted(sortByLastUpdated(SubSeq(drafts, 1, Len(drafts) - 1)),
                      drafts[Len(drafts)])

\* getDrafts, lines 154-188: the listing of an array of records
DecryptedDrafts(rawDrafts, deviceKey, sessionUnlocked) ==
    sortByLastUpdated(
        [i \in 1 .. Len(rawDrafts) |-> Present(rawDrafts[i], deviceKey, sessionUnlocked)])

\* the read without the catch: a failure reaches the caller
ReadContent_NoCatch(draft, isProtected, deviceKey, item) ==
    LET content == decrypt(draft.content, deviceKey)
    IN  IF Failed(content) THEN content
        ELSE IF ~isProtected THEN content
        ELSE removePasswordProtection(content, item)

\* getDraftContent, lines 203-216, on the record found
ReadContent(draft, isProtected, deviceKey, item) ==
    LET content == decrypt(draft.content, deviceKey)
    IN  IF Failed(content) THEN null
        ELSE IF ~isProtected THEN content
        ELSE LET inner == removePasswordProtection(content, item)
             IN  IF Failed(inner) THEN null ELSE inner

-----------------------------------------------------------------------------
(* State *)

Idle == [pc |-> "idle"]

Init ==
    /\ idbDeviceKey = null
    /\ idbPasswordHash = null
    /\ cachedDeviceKey = null
    /\ sessionItem = null
    /\ localDrafts = null
    /\ localSettings = null
    /\ now = 1
    /\ nKeys = 0
    /\ nSalts = 0
    /\ last = [op |-> "start"]
    /\ saved = [id \in DraftIds |-> null]
    /\ configured = null
    /\ task = [p \in Procs |-> Idle]
    /\ race = <<>>

Undefined == [undefined |-> TRUE]

Bool(b) == [bool |-> b]

HasDraft(id) == findIndex(loadRawDrafts(localDrafts), id) > 0

DraftOf(id) == loadRawDrafts(localDrafts)[findIndex(loadRawDrafts(localDrafts), id)]

\* the key store and cache after a getDeviceKey() that ran to completion
UseDeviceKey(dk) ==
    /\ cachedDeviceKey' = dk.cached
    /\ idbDeviceKey' = dk.stored
    /\ nKeys' = dk.n

-----------------------------------------------------------------------------
(* Operations, each run to completion (one call at a time) *)

\* initializeCrypto(): await getDeviceKey()
InitializeCrypto ==
    LET dk == GetDeviceKey(cachedDeviceKey, idbDeviceKey, nKeys)
    IN  /\ UseDeviceKey(dk)
        /\ last' = [op |-> "initializeCrypto", ret |-> Undefined]
        /\ UNCHANGED <<passwordStore, sessionItem, localDrafts, localSettings,
                       now, saved, inFlight>>

\* the session stored without the password record being saved
SetupPassword_NoRecord(password) ==
    /\ nSalts < MaxSetups
    /\ sessionItem' = SessionData(password, nSalts + 1)
    /\ nSalts' = nSalts + 1
    /\ last' = [op |-> "setupPassword", password |-> password, ret |-> Undefined]
    /\ UNCHANGED <<keyStore, idbPasswordHash, configured, localDrafts,
                   localSettings, now, saved, inFlight>>

\* setupPassword(password)
SetupPassword(password) ==
    /\ nSalts < MaxSetups
    /\ \E iv \in IVs :
        LET salt == nSalts + 1
        IN  /\ idbPasswordHash' = HashData(password, salt, iv)
            /\ sessionItem' = SessionData(password, salt)
            /\ nSalts' = salt
    /\ configured' = password
    /\ last' = [op |-> "setupPassword", password |-> password, ret |-> Undefined]
    /\ UNCHANGED <<keyStore, localDrafts, localSettings, now, saved, inFlight>>

\* the check for a missing record left out: no record reads as a match
VerifyPassword_NoRecordCheck(password) ==
    LET hashData == idbPasswordHash
        ok == hashData = null \/ MarkerOpens(password, hashData)
    IN  /\ sessionItem' = IF hashData = null THEN SessionData(password, 0)
                          ELSE IF ok
                          THEN SessionData(password, base64ToBuffer(hashData.salt))
                          ELSE sessionItem
        /\ last' = [op |-> "verifyPassword", password |-> password,
                    ret |-> Bool(ok)]
        /\ UNCHANGED <<keyStore, passwordStore, localDrafts, localSettings, now,
                       saved, inFlight>>

\* the session key stored before the marker is compared
VerifyPassword_AlwaysStores(password) ==
    LET hashData == idbPasswordHash
        ok == hashData # null /\ MarkerOpens(password, hashData)
    IN  /\ sessionItem' = IF hashData # null
                          THEN SessionData(password, base64ToBuffer(hashData.salt))
                          ELSE sessionItem
        /\ last' = [op |-> "verifyPassword", password |-> password,
                    ret |-> Bool(ok)]
        /\ UNCHANGED <<keyStore, passwordStore, localDrafts, localSettings, now,
                       saved, inFlight>>

\* verifyPassword(password)
VerifyPassword(password) ==
    LET hashData == idbPasswordHash
        ok == hashData # null /\ MarkerOpens(password, hashData)
    IN  /\ sessionItem' = IF ok
                          THEN SessionData(password, base64ToBuffer(hashData.salt))
                          ELSE sessionItem
        /\ last' = [op |-> "verifyPassword", password |-> password,
                    ret |-> Bool(ok)]
        /\ UNCHANGED <<keyStore, passwordStore, localDrafts, localSettings, now,
                       saved, inFlight>>

\* isPasswordSetup()
IsPasswordSetup ==
    /\ last' = [op |-> "isPasswordSetup", ret |-> Bool(idbPasswordHash # null)]
    /\ UNCHANGED <<keyStore, passwordStore, sessionItem, localDrafts,
                   localSettings, now, saved, inFlight>>

\* lockSession()
\* the lock that removes the password record as well
LockSession_ForgetsPassword ==
    /\ sessionItem' = null
    /\ idbPasswordHash' = null
    /\ last' = [op |-> "lockSession", ret |-> Undefined]
    /\ UNCHANGED <<keyStore, configured, nSalts, localDrafts, localSettings, now,
                   saved, inFlight>>

\* isSessionUnlocked()
IsSessionUnlocked ==
    /\ last' = [op |-> "isSessionUnlocked",
                ret |-> Bool(isSessionUnlocked(sessionItem))]
    /\ UNCHANGED <<keyStore, passwordStore, sessionItem, localDrafts,
                   localSettings, now, saved, inFlight>>

LockSession ==
    /\ sessionItem' = null
    /\ last' = [op |-> "lockSession", ret |-> Undefined]
    /\ UNCHANGED <<keyStore, passwordStore, localDrafts, localSettings, now,
                   saved, inFlight>>

\* saveDraft(id, content, isProtected, createdAt)
SaveDraft(id, content, isProtected, createdAt) ==
    LET call == [op |-> "saveDraft", id |-> id, content |-> content,
                 isProtected |-> isProtected, createdAt |-> createdAt]
    IN
    IF IsBlank(content)
    THEN /\ last' = call @@ [ret |-> Undefined]
         /\ UNCHANGED <<keyStore, passwordStore, sessionItem, localDrafts,
                        localSettings, now, saved, inFlight>>
    ELSE \E iv1, iv2, iv3 \in IVs :
        LET rawDrafts == loadRawDrafts(localDrafts)
            contentToStore == ContentToStore(content, isProtected, sessionItem, iv1)
            dk == GetDeviceKey(cachedDeviceKey, idbDeviceKey, nKeys)
            encryptedContent == encrypt(contentToStore, dk.key, iv2)
            encryptedSnippet ==
                encrypt(SnippetText(content, isProtected), dk.key, iv3)
        IN  IF Failed(contentToStore)
            THEN /\ last' = call @@ [ret |-> contentToStore]
                 /\ UNCHANGED <<keyStore, passwordStore, sessionItem, localDrafts,
                                localSettings, now, saved, inFlight>>
            ELSE IF ~ParsesToArray(localDrafts)
            THEN /\ UseDeviceKey(dk)
                 /\ last' = call @@ [ret |-> TypeError]
                 /\ UNCHANGED <<passwordStore, sessionItem, localDrafts,
                                localSettings, now, saved, inFlight>>
            ELSE /\ UseDeviceKey(dk)
                 /\ localDrafts' = saveRawDrafts(
                        Upsert(rawDrafts, id, encryptedContent, encryptedSnippet,
                               isProtected, createdAt, now))
                 /\ saved' = [saved EXCEPT ![id] =
                        [content |-> content, isProtected |-> isProtected,
                         session |-> IF isProtected THEN sessionItem ELSE null]]
                 /\ last' = call @@ [ret |-> Undefined]
                 /\ UNCHANGED <<passwordStore, sessionItem, localSettings, now,
                                inFlight>>

\* getDraftContent(id, isProtected)
GetDraftContent(id, isProtected) ==
    LET rawDrafts == loadRawDrafts(localDrafts)
        index == findIndex(rawDrafts, id)
        call == [op |-> "getDraftContent", id |-> id, isProtected |-> isProtected]
    IN  IF ~ParsesToArray(localDrafts)
        THEN /\ last' = call @@ [ret |-> TypeError, found |-> FALSE]
             /\ UNCHANGED <<keyStore, passwordStore, sessionItem, localDrafts,
                            localSettings, now, saved, inFlight>>
        ELSE IF index = 0
        THEN /\ last' = call @@ [ret |-> null, found |-> FALSE]
             /\ UNCHANGED <<keyStore, passwordStore, sessionItem, localDrafts,
                            localSettings, now, saved, inFlight>>
        ELSE LET dk == GetDeviceKey(cachedDeviceKey, idbDeviceKey, nKeys)
             IN  /\ UseDeviceKey(dk)
                 /\ last' = call @@
                        [ret |-> ReadContent(rawDrafts[index], isProtected, dk.key,
                                             sessionItem),
                         found |-> TRUE]
                 /\ UNCHANGED <<passwordStore, sessionItem, localDrafts,
                                localSettings, now, saved, inFlight>>

\* getDrafts()
GetDrafts ==
    LET rawDrafts == loadRawDrafts(localDrafts)
        sessionUnlocked == isSessionUnlocked(sessionItem)
        dk == IF rawDrafts = <<>>
              THEN [key |-> null, cached |-> cachedDeviceKey,
                    stored |-> idbDeviceKey, n |-> nKeys]
              ELSE GetDeviceKey(cachedDeviceKey, idbDeviceKey, nKeys)
    IN  IF ~ParsesToArray(localDrafts)
        THEN /\ last' = [op |-> "getDrafts", ret |-> [list |-> <<>>]]
             /\ UNCHANGED <<keyStore, passwordStore, sessionItem, localDrafts,
                            localSettings, now, saved, inFlight>>
        ELSE /\ UseDeviceKey(dk)
             /\ last' = [op |-> "getDrafts",
                         ret |-> [list |-> DecryptedDrafts(rawDrafts, dk.key,
                                                           sessionUnlocked)]]
             /\ UNCHANGED <<passwordStore, sessionItem, localDrafts, localSettings,
                            now, saved, inFlight>>

\* deleteDraft(id)
DeleteDraft(id) ==
    IF ~ParsesToArray(localDrafts)
    THEN /\ last' = [op |-> "deleteDraft", id |-> id, ret |-> TypeError]
         /\ UNCHANGED <<keyStore, passwordStore, sessionItem, localDrafts,
                        localSettings, now, saved, inFlight>>
    ELSE /\ localDrafts' = saveRawDrafts(RemoveId(loadRawDrafts(localDrafts), id))
         /\ saved' = [saved EXCEPT ![id] = null]
         /\ last' = [op |-> "deleteDraft", id |-> id, ret |-> Undefined]
         /\ UNCHANGED <<keyStore, passwordStore, sessionItem, localSettings, now,
                        inFlight>>

\* setRetentionPeriod(ms)
SetRetentionPeriod(ms) ==
    LET settings ==
            IF localSettings = null THEN [retentionMs |-> ms]
            ELSE [f \in DOMAIN localSettings.json \cup {"retentionMs"} |->
                     IF f = "retentionMs" THEN ms ELSE localSettings.json[f]]
    IN  /\ localSettings' =
               IF localSettings # null /\ "json" \notin DOMAIN localSettings
               THEN localSettings
               ELSE [json |-> settings]
        /\ last' = [op |-> "setRetentionPeriod", ms |-> ms, ret |-> Undefined]
        /\ UNCHANGED <<keyStore, passwordStore, sessionItem, localDrafts, now,
                       saved, inFlight>>

\* a number returned to the caller
Number(n) == [number |-> n]

\* getRetentionPeriod()
GetRetentionPeriod ==
    /\ last' = [op |-> "getRetentionPeriod",
                ret |-> Number(getRetentionPeriod(localSettings))]
    /\ UNCHANGED <<keyStore, passwordStore, sessionItem, localDrafts,
                   localSettings, now, saved, inFlight>>

\* the sweep that writes the collection back whether or not it removed
\* anything
CleanupOldDrafts_AlwaysWrites ==
    LET rawDrafts == loadRawDrafts(localDrafts)
        retentionMs == getRetentionPeriod(localSettings)
        freshDrafts == FreshDrafts(rawDrafts, now, retentionMs)
    IN  /\ ParsesToArray(localDrafts)
        /\ localDrafts' = saveRawDrafts(freshDrafts)
        /\ saved' = [id \in DraftIds |->
                        IF findIndex(freshDrafts, id) > 0 THEN saved[id] ELSE null]
        /\ last' = [op |-> "cleanupOldDrafts",
                    removed |-> Len(rawDrafts) - Len(freshDrafts),
                    ret |-> Undefined]
        /\ UNCHANGED <<keyStore, passwordStore, sessionItem, localSettings, now,
                       inFlight>>

\* cleanupOldDrafts()
CleanupOldDrafts ==
    LET rawDrafts == loadRawDrafts(localDrafts)
        retentionMs == getRetentionPeriod(localSettings)
        freshDrafts == FreshDrafts(rawDrafts, now, retentionMs)
    IN  IF ~ParsesToArray(localDrafts)
        THEN /\ last' = [op |-> "cleanupOldDrafts", removed |-> 0,
                         ret |-> Undefined]
             /\ UNCHANGED <<keyStore, passwordStore, sessionItem, localDrafts,
                            localSettings, now, saved, inFlight>>
        ELSE /\ localDrafts' = IF Len(rawDrafts) # Len(freshDrafts)
                               THEN saveRawDrafts(freshDrafts)
                               ELSE localDrafts
             /\ saved' = [id \in DraftIds |->
                             IF findIndex(freshDrafts, id) > 0 THEN saved[id] ELSE null]
             /\ last' = [op |-> "cleanupOldDrafts",
                         removed |-> Len(rawDrafts) - Len(freshDrafts),
                         ret |-> Undefined]
             /\ UNCHANGED <<keyStore, passwordStore, sessionItem, localSettings, now,
                            inFlight>>

\* the clock moves on between two calls
Tick ==
    /\ now < MaxNow
    /\ now' = now + 1
    /\ last' = [op |-> "tick"]
    /\ UNCHANGED <<keyStore, passwordStore, sessionItem, localDrafts,
                   localSettings, saved, inFlight>>

\* the tab is closed and the page loaded again: module state and
\* sessionStorage are gone, IndexedDB and localStorage stay
Restart ==
    /\ cachedDeviceKey' = null
    /\ sessionItem' = null
    /\ last' = [op |-> "restart"]
    /\ UNCHANGED <<idbDeviceKey, nKeys, passwordStore, localDrafts, localSettings,
                   now, saved, inFlight>>

-----------------------------------------------------------------------------
(* Specifications *)

CoreIds == {"d1", "d2"}

RetentionInputs == {1, 2}

\* the password and draft operations, called one after the other
Next ==
    \/ InitializeCrypto
    \/ \E password \in Passwords : SetupPassword(password)
    \/ \E password \in Passwords : VerifyPassword(password)
    \/ LockSession
    \/ \E id \in CoreIds, content \in Texts, isProtected \in BOOLEAN :
           SaveDraft(id, content, isProtected, 0)
    \/ \E id \in CoreIds, isProtected \in BOOLEAN : GetDraftContent(id, isProtected)
    \/ GetDrafts
    \/ \E id \in CoreIds : DeleteDraft(id)

Spec == Init /\ [][Next]_vars

\* the draft store over time: saves, deletion and the retention sweep
SweepTexts == {Str(<<32>>), Str(<<97>>)}

NextSweep ==
    \/ \E id \in DraftIds, content \in SweepTexts :
           SaveDraft(id, content, FALSE, 0)
    \/ \E id \in DraftIds : DeleteDraft(id)
    \/ \E ms \in RetentionInputs : SetRetentionPeriod(ms)
    \/ CleanupOldDrafts
    \/ Tick

SpecSweep == Init /\ [][NextSweep]_vars

-----------------------------------------------------------------------------
(* Interleaved runs: asynchronous calls suspended at their awaits.  A call  *)
(* takes one step from each await to the next; every read or write of      *)
(* shared state belongs to the step that does it.                          *)

Settled == \A p \in Procs : task[p].pc \in {"idle", "done"}

\* every call has returned; the next calls start from here
Settle ==
    /\ Settled
    /\ \E p \in Procs : task[p].pc = "done"
    /\ task' = [p \in Procs |-> Idle]
    /\ race' = loadRawDrafts(localDrafts)
    /\ UNCHANGED <<keyStore, passwordStore, sessionItem, localDrafts,
                   localSettings, now, last, saved>>

Step(p, t) == task' = [task EXCEPT ![p] = t]

\* getDeviceKey(), line 115: the cached key is returned at once
GdkStart(p) ==
    /\ task[p].pc = "idle"
    /\ Step(p, IF cachedDeviceKey # null
               THEN [pc |-> "done", op |-> "getDeviceKey", first |-> FALSE,
                     key |-> cachedDeviceKey, put |-> FALSE]
               ELSE [pc |-> "gdk_get", op |-> "getDeviceKey",
                     first |-> idbDeviceKey = null])
    /\ UNCHANGED <<keyStore, passwordStore, sessionItem, localDrafts,
                   localSettings, now, last, saved, race>>

\* lines 117-125: getFromDB answers; with no stored key a new one is
\* generated and exported
GdkGet(p) ==
    /\ task[p].pc = "gdk_get"
    /\ IF idbDeviceKey # null
       THEN /\ Step(p, [task[p] EXCEPT !.pc = "gdk_import"] @@ [storedKey |-> idbDeviceKey])
            /\ nKeys' = nKeys
       ELSE /\ Step(p, [task[p] EXCEPT !.pc = "gdk_put"]
                           @@ [newKey |-> generateDeviceKey(nKeys + 1)])
            /\ nKeys' = nKeys + 1
    /\ UNCHANGED <<idbDeviceKey, cachedDeviceKey, passwordStore, sessionItem,
                   localDrafts, localSettings, now, last, saved, race>>

\* lines 119-120: importKey answers
GdkImport(p) ==
    /\ task[p].pc = "gdk_import"
    /\ cachedDeviceKey' = importKey(task[p].storedKey)
    /\ Step(p, [pc |-> "done", op |-> "getDeviceKey", first |-> task[p].first,
                key |-> importKey(task[p].storedKey), put |-> FALSE])
    /\ UNCHANGED <<idbDeviceKey, nKeys, passwordStore, sessionItem, localDrafts,
                   localSettings, now, last, saved, race>>

\* line 126: saveToDB puts the exported key
GdkPut(p) ==
    /\ task[p].pc = "gdk_put"
    /\ idbDeviceKey' = exportKey(task[p].newKey)
    /\ Step(p, [task[p] EXCEPT !.pc = "gdk_set"])
    /\ UNCHANGED <<cachedDeviceKey, nKeys, passwordStore, sessionItem, localDrafts,
                   localSettings, now, last, saved, race>>

\* lines 127-128
GdkSet(p) ==
    /\ task[p].pc = "gdk_set"
    /\ cachedDeviceKey' = task[p].newKey
    /\ Step(p, [pc |-> "done", op |-> "getDeviceKey", first |-> task[p].first,
                key |-> task[p].newKey, put |-> TRUE])
    /\ UNCHANGED <<idbDeviceKey, nKeys, passwordStore, sessionItem, localDrafts,
                   localSettings, now, last, saved, race>>

\* the page is loaded again while calls may be in flight: they are gone
Reload ==
    /\ nKeys < MaxKeys
    /\ cachedDeviceKey' = null
    /\ sessionItem' = null
    /\ task' = [p \in Procs |-> Idle]
    /\ race' = loadRawDrafts(localDrafts)
    /\ UNCHANGED <<idbDeviceKey, nKeys, passwordStore, localDrafts, localSettings,
                   now, last, saved>>

\* concurrent getDeviceKey() calls
NextKeyRace ==
    \/ \E p \in Procs : GdkStart(p)
    \/ \E p \in Procs : GdkGet(p)
    \/ \E p \in Procs : GdkImport(p)
    \/ \E p \in Procs : GdkPut(p)
    \/ \E p \in Procs : GdkSet(p)
    \/ Settle
    \/ Reload

SpecKeyRace == Init /\ [][NextKeyRace]_vars

\* saveDraft, lines 228-230: an empty text returns at once, else the
\* collection is loaded
SaveLoad(p, id, content) ==
    /\ task[p].pc = "idle"
    /\ Step(p, IF IsBlank(content)
               THEN [pc |-> "done", op |-> "saveDraft", id |-> id, wrote |-> FALSE]
               ELSE [pc |-> "save_loaded", op |-> "saveDraft", id |-> id,
                     content |-> content,
                     rawDrafts |-> loadRawDrafts(localDrafts)])
    /\ UNCHANGED <<keyStore, passwordStore, sessionItem, localDrafts,
                   localSettings, now, last, saved, race>>

\* lines 231-248 of an unprotected save: the time is read, content and
\* snippet are sealed with the device key
SaveSeal(p) ==
    /\ task[p].pc = "save_loaded"
    /\ \E iv2, iv3 \in IVs :
        LET dk == GetDeviceKey(cachedDeviceKey, idbDeviceKey, nKeys)
            contentToStore == ContentToStore(task[p].content, FALSE, sessionItem, iv2)
        IN  /\ UseDeviceKey(dk)
            /\ Step(p, [pc |-> "save_sealed", op |-> "saveDraft", id |-> task[p].id,
                        rawDrafts |-> task[p].rawDrafts, t |-> now,
                        encryptedContent |-> encrypt(contentToStore, dk.key, iv2),
                        encryptedSnippet |->
                            encrypt(SnippetText(task[p].content, FALSE), dk.key, iv3)])
    /\ UNCHANGED <<passwordStore, sessionItem, localDrafts, localSettings, now,
                   last, saved, race>>

\* lines 250-267: the record is put into the collection that was loaded,
\* and that collection is written
SaveWrite(p) ==
    /\ task[p].pc = "save_sealed"
    /\ localDrafts' = saveRawDrafts(
           Upsert(task[p].rawDrafts, task[p].id, task[p].encryptedContent,
                  task[p].encryptedSnippet, FALSE, 0, task[p].t))
    /\ Step(p, [pc |-> "done", op |-> "saveDraft", id |-> task[p].id,
                wrote |-> TRUE, t |-> task[p].t,
                encryptedContent |-> task[p].encryptedContent,
                encryptedSnippet |-> task[p].encryptedSnippet])
    /\ UNCHANGED <<keyStore, passwordStore, sessionItem, localSettings, now,
                   last, saved, race>>

\* deleteDraft, line 274
DeleteLoad(p, id) ==
    /\ task[p].pc = "idle"
    /\ Step(p, [pc |-> "delete_loaded", op |-> "deleteDraft", id |-> id,
                rawDrafts |-> loadRawDrafts(localDrafts)])
    /\ UNCHANGED <<keyStore, passwordStore, sessionItem, localDrafts,
                   localSettings, now, last, saved, race>>

\* deleteDraft, lines 275-276
DeleteWrite(p) ==
    /\ task[p].pc = "delete_loaded"
    /\ localDrafts' = saveRawDrafts(RemoveId(task[p].rawDrafts, task[p].id))
    /\ Step(p, [pc |-> "done", op |-> "deleteDraft", id |-> task[p].id])
    /\ UNCHANGED <<keyStore, passwordStore, sessionItem, localSettings, now,
                   last, saved, race>>

\* cleanupOldDrafts, line 307
SweepLoad(p) ==
    /\ task[p].pc = "idle"
    /\ Step(p, [pc |-> "sweep_loaded", op |-> "cleanupOldDrafts",
                rawDrafts |-> loadRawDrafts(localDrafts)])
    /\ UNCHANGED <<keyStore, passwordStore, sessionItem, localDrafts,
                   localSettings, now, last, saved, race>>

\* cleanupOldDrafts, lines 308-315
SweepWrite(p) ==
    /\ task[p].pc = "sweep_loaded"
    /\ LET rawDrafts == task[p].rawDrafts
           retentionMs == getRetentionPeriod(localSettings)
           freshDrafts == FreshDrafts(rawDrafts, now, retentionMs)
       IN  /\ localDrafts' = IF Len(rawDrafts) # Len(freshDrafts)
                             THEN saveRawDrafts(freshDrafts)
                             ELSE localDrafts
           /\ Step(p, [pc |-> "done", op |-> "cleanupOldDrafts", t |-> now,
                       retentionMs |-> retentionMs])
    /\ UNCHANGED <<keyStore, passwordStore, sessionItem, localSettings, now,
                   last, saved, race>>

\* the clock moves on, also while calls are suspended
Elapse ==
    /\ now < MaxNow
    /\ now' = now + 1
    /\ UNCHANGED <<keyStore, passwordStore, sessionItem, localDrafts,
                   localSettings, last, saved, inFlight>>

\* setRetentionPeriod(ms) is synchronous: it runs between two steps
Retain(ms) ==
    /\ getRetentionPeriod(localSettings) # ms
    /\ localSettings' = [json |-> [retentionMs |-> ms]]
    /\ UNCHANGED <<keyStore, passwordStore, sessionItem, localDrafts, now, last,
                   saved, inFlight>>

\* the state that initializeCrypto() leaves on a new installation
InitStoreRace ==
    /\ idbDeviceKey = exportKey(generateDeviceKey(1))
    /\ cachedDeviceKey = generateDeviceKey(1)
    /\ nKeys = 1
    /\ idbPasswordHash = null
    /\ sessionItem = null
    /\ localDrafts = null
    /\ localSettings = null
    /\ now = 1
    /\ nSalts = 0
    /\ last = [op |-> "initializeCrypto", ret |-> Undefined]
    /\ saved = [id \in DraftIds |-> null]
    /\ configured = null
    /\ task = [p \in Procs |-> Idle]
    /\ race = <<>>

RaceTexts == {Str(<<97>>)}

\* concurrent saveDraft, deleteDraft and cleanupOldDrafts calls
NextStoreRace ==
    \/ \E p \in Procs, id \in CoreIds, content \in RaceTexts : SaveLoad(p, id, content)
    \/ \E p \in Procs : SaveSeal(p)
    \/ \E p \in Procs : SaveWrite(p)
    \/ \E p \in Procs, id \in CoreIds : DeleteLoad(p, id)
    \/ \E p \in Procs : DeleteWrite(p)
    \/ \E p \in Procs : SweepLoad(p)
    \/ \E p \in Procs : SweepWrite(p)
    \/ Elapse
    \/ \E ms \in RetentionInputs : Retain(ms)
    \/ Settle

SpecStoreRace == InitStoreRace /\ [][NextStoreRace]_vars

-----------------------------------------------------------------------------
(* More specifications, each over the operations its properties are about *)

\* the optional createdAt argument of saveDraft: not given, or a timestamp
CreatedAtHints == {0, 7}

\* saves with and without a createdAt argument, over time
NextStamps ==
    \/ \E id \in CoreIds, content \in SweepTexts, isProtected \in BOOLEAN,
          createdAt \in CreatedAtHints :
           SaveDraft(id, content, isProtected, createdAt)
    \/ SetupPassword(Str(<<112>>))
    \/ \E id \in CoreIds : DeleteDraft(id)
    \/ Tick

SpecStamps == Init /\ [][NextStamps]_vars

\* the life of a session: every operation of the two services on one draft,
\* and the tab closed and opened again
OneId == {"d1"}

NextSession ==
    \/ InitializeCrypto
    \/ \E password \in Passwords : SetupPassword(password)
    \/ \E password \in Passwords : VerifyPassword(password)
    \/ LockSession
    \/ \E id \in OneId, content \in SweepTexts, isProtected \in BOOLEAN :
           SaveDraft(id, content, isProtected, 0)
    \/ \E id \in OneId, isProtected \in BOOLEAN : GetDraftContent(id, isProtected)
    \/ GetDrafts
    \/ \E id \in OneId : DeleteDraft(id)
    \/ CleanupOldDrafts
    \/ Restart

SpecSession == Init /\ [][NextSession]_vars

\* localStorage is changed from outside the two services (a restored
\* backup, another program on the same origin): the snippet of the record
\* under id is now a text that is no envelope of the device key
Damage(id) ==
    LET rawDrafts == loadRawDrafts(localDrafts)
        index == findIndex(rawDrafts, id)
    IN  /\ ParsesToArray(localDrafts)
        /\ index > 0
        /\ "chars" \notin DOMAIN rawDrafts[index].snippet
        /\ localDrafts' = saveRawDrafts(
               [rawDrafts EXCEPT ![index].snippet = Str(<<120>>)])
        /\ last' = [op |-> "damage", id |-> id]
        /\ UNCHANGED <<keyStore, passwordStore, sessionItem, localSettings, now,
                       saved, inFlight>>

\* "b\n"
ListedTexts == {Str(<<98, 10>>)}

\* listings of a collection in which records may not decrypt
NextDamage ==
    \/ SetupPassword(Str(<<112>>))
    \/ LockSession
    \/ \E id \in CoreIds, content \in ListedTexts, isProtected \in BOOLEAN :
           SaveDraft(id, content, isProtected, 0)
    \/ \E id \in CoreIds : Damage(id)
    \/ GetDrafts
    \/ Tick

SpecDamage == Init /\ [][NextDamage]_vars

\* what the item under STORAGE_KEY may hold when it is no array of records:
\* a text that does not parse, the text '{}', the text '[null]'
MalformedItems ==
    {[unparsable |-> TRUE], [parsed |-> [object |-> TRUE]],
     [parsed |-> [arrayOf |-> null]]}

\* localStorage is changed from outside the two services: the item under
\* STORAGE_KEY is malformed
Malform(item) ==
    /\ localDrafts # item
    /\ localDrafts' = item
    /\ saved' = [id \in DraftIds |-> null]
    /\ last' = [op |-> "malform"]
    /\ UNCHANGED <<keyStore, passwordStore, sessionItem, localSettings, now,
                   inFlight>>

\* the draft operations on a collection that may be malformed
NextMalformed ==
    \/ InitializeCrypto
    \/ SetupPassword(Str(<<112>>))
    \/ LockSession
    \/ \E item \in MalformedItems : Malform(item)
    \/ \E id \in CoreIds, content \in SweepTexts, isProtected \in BOOLEAN :
           SaveDraft(id, content, isProtected, 0)
    \/ \E id \in CoreIds, isProtected \in BOOLEAN : GetDraftContent(id, isProtected)
    \/ GetDrafts
    \/ \E id \in CoreIds : DeleteDraft(id)
    \/ CleanupOldDrafts

SpecMalformed == Init /\ [][NextMalformed]_vars

\* what the item under SETTINGS_KEY may hold when it is no settings object
\* with a number: a text that does not parse, the text 'null', an object
\* without retentionMs
MalformedSettings ==
    {[unparsable |-> TRUE], [parsed |-> null], [json |-> [theme |-> "dark"]]}

\* localStorage is changed from outside the two services: the item under
\* SETTINGS_KEY is malformed
MalformSettings(item) ==
    /\ localSettings # item
    /\ localSettings' = item
    /\ last' = [op |-> "malformSettings"]
    /\ UNCHANGED <<keyStore, passwordStore, sessionItem, localDrafts, now,
                   saved, inFlight>>

\* the arguments of setRetentionPeriod(ms: number)
AnyRetention == {-1, 0, 1, 2}

\* the retention setting and the sweep it governs
NextSettings ==
    \/ \E ms \in AnyRetention : SetRetentionPeriod(ms)
    \/ GetRetentionPeriod
    \/ \E item \in MalformedSettings : MalformSettings(item)
    \/ \E id \in CoreIds : SaveDraft(id, Str(<<97>>), FALSE, 0)
    \/ CleanupOldDrafts
    \/ Tick

SpecSettings == Init /\ [][NextSettings]_vars

\* encrypt(plaintext, key)
Encrypt(plaintext, key, iv) ==
    /\ last' = [op |-> "encrypt", plaintext |-> plaintext, key |-> key,
                iv |-> iv, ret |-> encrypt(plaintext, key, iv)]
    /\ UNCHANGED <<keyStore, passwordStore, sessionItem, localDrafts,
                   localSettings, now, saved, inFlight>>

\* The envelope that encrypt returned is changed before it is opened: bits
\* of the ciphertext or of the tag (the bytes after the first 12) are
\* flipped.  What results is sealed under no key.
Alter(part) ==
    /\ last.op = "encrypt"
    /\ last' = [last EXCEPT
                   !.op = "alter",
                   !.ret = bufferToBase64(
                       [iv |-> base64ToBuffer(last.ret).iv,
                        rest |-> [flipped |-> part,
                                  of |-> base64ToBuffer(last.ret).rest]])]
    /\ UNCHANGED <<keyStore, passwordStore, sessionItem, localDrafts,
                   localSettings, now, saved, inFlight>>

\* decrypt(ciphertext, key) of the ciphertext that encrypt returned last,
\* as it was returned or altered
Decrypt(key) ==
    /\ last.op \in {"encrypt", "alter"}
    /\ last' = [op |-> "decrypt", plaintext |-> last.plaintext,
                sealedWith |-> last.key, iv |-> last.iv, ciphertext |-> last.ret,
                altered |-> last.op = "alter",
                key |-> key, ret |-> decrypt(last.ret, key)]
    /\ UNCHANGED <<keyStore, passwordStore, sessionItem, localDrafts,
                   localSettings, now, saved, inFlight>>

\* two device keys and a password key
CodecKeys ==
    {generateDeviceKey(1), generateDeviceKey(2),
     deriveKeyFromPassword(Str(<<112>>), 1)}

CodecIVs == {"iv1", "iv2"}

\* "", U+00E9, U+20AC, U+1F512, "a\uFEFF", a lone surrogate "\uD83D", and
\* the texts of the drafts; the envelope of the password layer, which is
\* sealed again as a text
Plaintexts ==
    Texts \cup {Str(<<>>), Str(<<233>>), Str(<<8364>>), Str(<<128274>>),
                Str(<<97, 65279>>), Str(<<55357>>)}
          \cup {encrypt(Str(<<97>>), deriveKeyFromPassword(Str(<<112>>), 1), "iv1")}

\* the envelope codec on its own
NextCodec ==
    \/ \E plaintext \in Plaintexts, key \in CodecKeys, iv \in CodecIVs :
           Encrypt(plaintext, key, iv)
    \/ \E part \in {"ciphertext", "tag"} : Alter(part)
    \/ \E key \in CodecKeys : Decrypt(key)

SpecCodec == Init /\ [][NextCodec]_vars

\* drafts of every text saved, the tab closed and opened again, the drafts
\* read
NextRestart ==
    \/ InitializeCrypto
    \/ SetupPassword(Str(<<112>>))
    \/ IsPasswordSetup
    \/ \E id \in OneId, content \in Texts, isProtected \in BOOLEAN :
           SaveDraft(id, content, isProtected, 0)
    \/ \E id \in OneId, isProtected \in BOOLEAN : GetDraftContent(id, isProtected)
    \/ Restart

SpecRestart == Init /\ [][NextRestart]_vars

\* every operation of the two services that reads or writes the password
\* record, the session, the device key or the drafts
NextFrame ==
    \/ InitializeCrypto
    \/ \E password \in Passwords : SetupPassword(password)
    \/ \E password \in Passwords : VerifyPassword(password)
    \/ IsPasswordSetup
    \/ IsSessionUnlocked
    \/ LockSession
    \/ \E id \in OneId, content \in SweepTexts, isProtected \in BOOLEAN :
           SaveDraft(id, content, isProtected, 0)
    \/ \E id \in OneId, isProtected \in BOOLEAN : GetDraftContent(id, isProtected)
    \/ GetDrafts
    \/ \E id \in OneId : DeleteDraft(id)
    \/ Restart

SpecFrame == Init /\ [][NextFrame]_vars

-----------------------------------------------------------------------------
(* Properties *)

NotUnlocked == [error |-> "Session not unlocked"]

\* a text that trimming leaves empty
OnlyWhiteSpace(str) == \A i \in 1 .. Len(str.chars) : str.chars[i] \in WhiteSpace

ProtectedSave(call) ==
    /\ call.op = "saveDraft"
    /\ call.isProtected
    /\ ~OnlyWhiteSpace(call.content)

\* C1: a save of non-blank text with isProtected = true, made while no
\* session is open, does not complete normally: it ends with the error
\* 'Session not unlocked' reaching the caller.
C1_ProtectedSaveLockedFails ==
    (ProtectedSave(last) /\ ~isSessionUnlocked(sessionItem))
        => last.ret = NotUnlocked

C1_Witness ==
    /\ ProtectedSave(last)
    /\ ~isSessionUnlocked(sessionItem)
    /\ last.ret = NotUnlocked

\* C2: in a session opened by setupPassword, a protected save of non-blank
\* text succeeds, and a protected read of that draft in the same session
\* returns exactly the text that was saved.
C2_ProtectedSaveThenRead ==
    /\ (ProtectedSave(last) /\ isSessionUnlocked(sessionItem))
           => last.ret = Undefined
    /\ (/\ last.op = "getDraftContent"
        /\ last.isProtected
        /\ HasDraft(last.id)
        /\ saved[last.id] # null
        /\ saved[last.id].isProtected
        /\ isSessionUnlocked(sessionItem)
        /\ saved[last.id].session = sessionItem)
           => last.ret = saved[last.id].content

\* C3: when every call in flight is a getDeviceKey() that was started
\* before any device key existed, exactly one of them persists a key, and
\* what is sealed with the key returned to one call opens with the key
\* returned to every other.
C3_SingleDeviceKey ==
    (\A p \in Procs : /\ task[p].pc = "done"
                      /\ task[p].op = "getDeviceKey"
                      /\ task[p].first)
        => /\ Cardinality({p \in Procs : task[p].put}) = 1
           /\ \A p, q \in Procs : \A iv \in IVs :
                  decrypt(encrypt(Str(<<97>>), task[p].key, iv), task[q].key)
                      = Str(<<97>>)

\* what the call of a task does to a collection when it runs alone
Effect(t, drafts) ==
    IF t.pc = "idle" THEN drafts
    ELSE IF t.op = "saveDraft"
        THEN IF t.wrote
             THEN Upsert(drafts, t.id, t.encryptedContent, t.encryptedSnippet,
                         FALSE, 0, t.t)
             ELSE drafts
    ELSE IF t.op = "deleteDraft" THEN RemoveId(drafts, t.id)
    ELSE FreshDrafts(drafts, t.t, t.retentionMs)

\* C4: once the save, delete and sweep calls that were in flight together
\* have all returned, the collection is what running them one after the
\* other, in one order or the other, makes of the collection they started
\* from.
C4_Serializable ==
    Settled
        => \E a, b \in Procs :
               /\ a # b
               /\ loadRawDrafts(localDrafts) = Effect(task[b], Effect(task[a], race))

\* C5: with a PasswordRecord in place, verifyPassword with another password
\* than the one it was set up with returns false, raises nothing, and
\* leaves a locked session locked.
C5_WrongPasswordRejected ==
    [][(/\ last'.op = "verifyPassword"
        /\ idbPasswordHash # null
        /\ last'.password # configured)
           => (/\ last'.ret = Bool(FALSE)
               /\ (~isSessionUnlocked(sessionItem) => ~isSessionUnlocked(sessionItem')))]_vars

C5_Witness ==
    /\ last.op = "verifyPassword"
    /\ idbPasswordHash # null
    /\ last.password # configured
    /\ last.ret = Bool(FALSE)
    /\ ~isSessionUnlocked(sessionItem)

\* C6: with a PasswordRecord in place, verifyPassword with the password of
\* the most recent setupPassword returns true and leaves the session
\* unlocked, whether it was locked or unlocked before.
C6_RightPasswordUnlocks ==
    [][(/\ last'.op = "verifyPassword"
        /\ idbPasswordHash # null
        /\ last'.password = configured)
           => (/\ last'.ret = Bool(TRUE)
               /\ isSessionUnlocked(sessionItem'))]_vars

C6_Witness ==
    /\ last.op = "verifyPassword"
    /\ last.password = configured
    /\ last.ret = Bool(TRUE)
    /\ isSessionUnlocked(sessionItem)

\* C7 as stated: a protected draft is listed with the placeholder while the
\* session is locked and with another text, its real snippet, once the
\* session is unlocked.
C7_UnlockedListingDiffers ==
    (last.op = "getDrafts" /\ isSessionUnlocked(sessionItem))
        => \A d \in Range(last.ret.list) :
               d.isProtected => d.snippet # ProtectedNote

\* C7 as amended: a protected draft is listed with the fixed placeholder as
\* its snippet in both session states; the snippet stored for it is the
\* placeholder itself, so unlocking does not change the presentation.
C7_ProtectedListedAsPlaceholder ==
    last.op = "getDrafts"
        => \A d \in Range(last.ret.list) :
               d.isProtected => d.snippet = ProtectedNote

C7_Witness ==
    /\ last.op = "getDrafts"
    /\ isSessionUnlocked(sessionItem)
    /\ \E d \in Range(last.ret.list) :
           /\ d.isProtected
           /\ d.snippet = ProtectedNote
           /\ saved[d.id].content # ProtectedNote

C9_BlankSaveChangesNothing ==
    [][(last'.op = "saveDraft" /\ OnlyWhiteSpace(last'.content))
           => (/\ localDrafts' = localDrafts
               /\ last'.ret = Undefined
               /\ UNCHANGED <<keyStore, passwordStore, sessionItem, localSettings>>)]_vars

C9_Witness ==
    /\ last.op = "saveDraft"
    /\ OnlyWhiteSpace(last.content)
    /\ last.isProtected
    /\ ~isSessionUnlocked(sessionItem)
    /\ HasDraft(last.id)

Age(d) == now - d.lastUpdated

\* C10: the sweep run at time now under retention retentionMs leaves
\* exactly the records with now - lastUpdated < retentionMs, in their
\* previous order and unmodified.
C10_SweepKeepsFresh ==
    [][last'.op = "cleanupOldDrafts"
           => loadRawDrafts(localDrafts') =
                  SelectSeq(loadRawDrafts(localDrafts),
                            LAMBDA d : Age(d) < getRetentionPeriod(localSettings))]_vars

C10_Witness ==
    /\ last.op = "cleanupOldDrafts"
    /\ last.removed = 1
    /\ Len(loadRawDrafts(localDrafts)) = 2
    /\ \E d \in Range(loadRawDrafts(localDrafts)) : Age(d) = 1


\* the record stored under id, in a collection that holds one
Stored(drafts, id) == drafts[findIndex(drafts, id)]

\* C11: a successful save under an id that already has a record leaves the
\* record's createdAt as it was, whatever createdAt argument the save was
\* given, and sets lastUpdated to the time of the save; the first save
\* under an id fixes createdAt (the argument, or the time of the save).
C11_CreatedAtKept ==
    [][(/\ last'.op = "saveDraft"
        /\ ~OnlyWhiteSpace(last'.content)
        /\ last'.ret = Undefined)
           => LET before == loadRawDrafts(localDrafts)
                  after == loadRawDrafts(localDrafts')
                  id == last'.id
              IN  /\ findIndex(after, id) > 0
                  /\ Stored(after, id).lastUpdated = now
                  /\ Stored(after, id).createdAt =
                         IF findIndex(before, id) > 0
                         THEN Stored(before, id).createdAt
                         ELSE IF last'.createdAt # 0 THEN last'.createdAt ELSE now]_vars

C11_Witness ==
    /\ last.op = "saveDraft"
    /\ last.ret = Undefined
    /\ last.createdAt # 0
    /\ HasDraft(last.id)
    /\ DraftOf(last.id).createdAt \notin {last.createdAt, now}
    /\ DraftOf(last.id).lastUpdated = now


DraftOps == {"saveDraft", "getDrafts", "getDraftContent", "deleteDraft",
             "cleanupOldDrafts"}

\* C12: the session is Locked (no item) or Unlocked (an item holding a
\* password and a salt) and starts Locked; it becomes Unlocked only by a
\* setupPassword or by a verifyPassword that returns true; lockSession
\* leaves it Locked and raises nothing, also when it was Locked already;
\* no draft operation changes it.
C12_SessionStates ==
    /\ ~isSessionUnlocked(sessionItem)
    /\ [](sessionItem = null \/ getSessionPasswordKey(sessionItem) # null)
    /\ [][/\ (~isSessionUnlocked(sessionItem) /\ isSessionUnlocked(sessionItem'))
              => \/ last'.op = "setupPassword"
                 \/ last'.op = "verifyPassword" /\ last'.ret = Bool(TRUE)
          /\ (isSessionUnlocked(sessionItem) /\ ~isSessionUnlocked(sessionItem'))
              => last'.op \in {"lockSession", "restart"}
          /\ last'.op = "lockSession"
              => /\ ~isSessionUnlocked(sessionItem')
                 /\ last'.ret = Undefined
          /\ last'.op \in DraftOps => sessionItem' = sessionItem]_vars

C12_Witness ==
    /\ last.op = "getDraftContent"
    /\ last.isProtected
    /\ last.found
    /\ last.ret # null
    /\ isSessionUnlocked(sessionItem)


\* the record of the last save under id was sealed under a password record
\* that setupPassword has replaced since, with another password
SealedUnderOldPassword(id) ==
    /\ saved[id] # null
    /\ saved[id].isProtected
    /\ idbPasswordHash # null
    /\ saved[id].session.salt # idbPasswordHash.salt
    /\ saved[id].session.password # configured

\* C13: setupPassword replaces the password record by one with a new salt
\* that its password opens, and leaves the session unlocked; a draft that
\* was saved protected under the record of an earlier setupPassword with
\* another password is not returned by a protected read any more, in the
\* session that the new setupPassword or a verifyPassword opened.
C13_ResetupInvalidates ==
    /\ [][last'.op = "setupPassword"
              => /\ isSessionUnlocked(sessionItem')
                 /\ idbPasswordHash' # idbPasswordHash
                 /\ idbPasswordHash # null
                        => idbPasswordHash'.salt # idbPasswordHash.salt
                 /\ MarkerOpens(last'.password, idbPasswordHash')]_vars
    /\ []((/\ last.op = "getDraftContent"
           /\ last.isProtected
           /\ last.found
           /\ SealedUnderOldPassword(last.id))
              => last.ret = null)

C13_Witness ==
    /\ last.op = "getDraftContent"
    /\ last.isProtected
    /\ last.found
    /\ SealedUnderOldPassword(last.id)
    /\ isSessionUnlocked(sessionItem)
    /\ sessionItem.password = configured
    /\ last.ret = null


\* C14: while no password record exists the session is locked, a protected
\* save of non-blank text fails with 'Session not unlocked', and the
\* collection holds no record with isProtected = true.
C14_NoRecordNoProtected ==
    idbPasswordHash = null
        => /\ ~isSessionUnlocked(sessionItem)
           /\ ProtectedSave(last) => last.ret = NotUnlocked
           /\ \A d \in Range(loadRawDrafts(localDrafts)) : ~d.isProtected

C14_Witness ==
    /\ idbPasswordHash = null
    /\ ProtectedSave(last)
    /\ last.ret = NotUnlocked
    /\ cachedDeviceKey = null
    /\ HasDraft(last.id)


\* the snippet of a stored record does not open under the device key
Unreadable(d) == Failed(decrypt(d.snippet, cachedDeviceKey))

\* C15: a listing of a collection in which the snippet of some record does
\* not open under the device key still returns every record; the record
\* that does not open is listed with the unable-to-decrypt placeholder as
\* its snippet, and the other records are listed, in the same order, as
\* they are when the collection holds only them.
C15_ListingSurvivesBadRecord ==
    (last.op = "getDrafts" /\ loadRawDrafts(localDrafts) # <<>>)
        => LET rawDrafts == loadRawDrafts(localDrafts)
               list == last.ret.list
               bad == {d.id : d \in {r \in Range(rawDrafts) : Unreadable(r)}}
           IN  /\ Len(list) = Len(rawDrafts)
               /\ \A d \in Range(rawDrafts) :
                      d.id \in bad
                          => \E e \in Range(list) :
                                 /\ e.id = d.id
                                 /\ e.snippet = UnableToDecrypt
                                 /\ e.content = d.content
                                 /\ e.lastUpdated = d.lastUpdated
               /\ SelectSeq(list, LAMBDA e : e.id \notin bad)
                      = DecryptedDrafts(SelectSeq(rawDrafts, LAMBDA d : d.id \notin bad),
                                        cachedDeviceKey,
                                        isSessionUnlocked(sessionItem))

C15_Witness ==
    /\ last.op = "getDrafts"
    /\ Len(last.ret.list) = 2
    /\ last.ret.list[1].snippet = UnableToDecrypt
    /\ last.ret.list[2].snippet = Str(<<98, 32>>)


\* C16: in a listing made while the session is locked, every record with
\* isProtected = true has the protected placeholder as its snippet, whether
\* its stored snippet opens under the device key or not.
C16_LockedListingHidesProtected ==
    (last.op = "getDrafts" /\ ~isSessionUnlocked(sessionItem))
        => \A e \in Range(last.ret.list) :
               e.isProtected => e.snippet = ProtectedNote


\* C17: while the persisted collection is malformed (a text that does not
\* parse, or a parsed value that is no sequence of records), a listing
\* returns the empty sequence and save, delete and the sweep return
\* normally, raising nothing to the caller.
C17_MalformedReadsAsEmpty ==
    (localDrafts \in MalformedItems /\ last.op \in DraftOps)
        => /\ last.op = "getDrafts" => last.ret.list = <<>>
           /\ last.op \in {"saveDraft", "deleteDraft", "cleanupOldDrafts"}
                  => last.ret \in {Undefined, NotUnlocked}


\* C18: once a device key is persisted, no step changes or removes the
\* persisted key, and the key that getDeviceKey() hands out (the cached key,
\* or after a restart the persisted key imported again) is that key.
C18_DeviceKeyKept ==
    /\ [][idbDeviceKey # null => idbDeviceKey' = idbDeviceKey]_vars
    /\ [](cachedDeviceKey # null
            => /\ idbDeviceKey # null
               /\ cachedDeviceKey = importKey(idbDeviceKey))


\* C19: getRetentionPeriod() returns a number greater than 0: the default
\* of 14 days when the setting is absent or malformed, else the stored
\* retentionMs, whatever value setRetentionPeriod was given before.
C19_RetentionPositive ==
    last.op = "getRetentionPeriod"
        => /\ last.ret.number > 0
           /\ last.ret.number =
                  IF localSettings = null \/ localSettings \in MalformedSettings
                  THEN 1209600000
                  ELSE localSettings.json.retentionMs


\* C20: decrypt, under the key that encrypt was given, returns the
\* plaintext that encrypt was given, for every plaintext and key; and
\* encrypt with another nonce gives another envelope.
C20_RoundTrip ==
    (last.op = "decrypt" /\ last.key = last.sealedWith /\ ~last.altered)
        => /\ last.ret = last.plaintext
           /\ \A iv \in CodecIVs \ {last.iv} :
                  encrypt(last.plaintext, last.key, iv) # last.ciphertext


\* C21: decrypt of an envelope that was sealed under another key, or whose
\* ciphertext or tag was altered after sealing, returns no text: it fails,
\* and so never yields a wrong plaintext.
C21_WrongKeyOrAlteredFails ==
    (last.op = "decrypt" /\ (last.key # last.sealedWith \/ last.altered))
        => Failed(last.ret)

C21_Witness ==
    /\ last.op = "decrypt"
    /\ last.altered
    /\ last.key = last.sealedWith
    /\ Failed(last.ret)


\* C22: a restart leaves the session locked, leaves isPasswordSetup() as it
\* was and leaves the durable stores as they were, and an unprotected read
\* made after the restart returns the text that was saved under the id.
C22_RestartKeepsDrafts ==
    /\ [][last'.op = "restart"
              => /\ ~isSessionUnlocked(sessionItem')
                 /\ (idbPasswordHash' # null) = (idbPasswordHash # null)
                 /\ UNCHANGED <<idbDeviceKey, localDrafts>>]_vars
    /\ [][(/\ last.op = "restart"
            /\ last'.op = "getDraftContent"
            /\ ~last'.isProtected
            /\ saved[last'.id] # null
            /\ ~saved[last'.id].isProtected)
               => last'.ret = saved[last'.id].content]_vars


\* C23: a draft saved protected in an unlocked session is readable again
\* once verifyPassword has opened a session with the same password and the
\* stored salt: the protected read that follows returns the text that was
\* saved.
C23_ReadableAfterReopen ==
    [][(/\ last.op = "verifyPassword"
        /\ last.ret = Bool(TRUE)
        /\ last'.op = "getDraftContent"
        /\ last'.isProtected
        /\ saved[last'.id] # null
        /\ saved[last'.id].isProtected
        /\ saved[last'.id].session.password = last.password
        /\ saved[last'.id].session.salt = idbPasswordHash.salt)
           => last'.ret = saved[last'.id].content]_vars


\* what lies inside an envelope: the key it was sealed with and the bytes
\* that were sealed
SealKey(envelope) == envelope.b64.rest.k
SealedBytes(envelope) == envelope.b64.rest.d

\* C24: the content of every stored record is an envelope of the device
\* key; for a protected record the text inside is itself an envelope,
\* sealed with the password key of the session that was open at the save,
\* around the text that was saved; for an unprotected record the text
\* inside is the text that was saved; the snippet is an envelope of the
\* device key around a plain text, for both.
C24_LayersOfStoredRecord ==
    \A d \in Range(loadRawDrafts(localDrafts)) :
        /\ idbDeviceKey # null
        /\ SealKey(d.content) = importKey(idbDeviceKey)
        /\ SealKey(d.snippet) = importKey(idbDeviceKey)
        /\ "utf8" \in DOMAIN SealedBytes(d.snippet)
        /\ saved[d.id] # null
        /\ saved[d.id].isProtected = d.isProtected
        /\ IF d.isProtected
           THEN /\ "ascii" \in DOMAIN SealedBytes(d.content)
                /\ LET inner == SealedBytes(d.content).ascii
                   IN  /\ IsBase64(inner)
                       /\ SealKey(inner) = getSessionPasswordKey(saved[d.id].session)
                       /\ SealedBytes(inner) = [utf8 |-> Utf8(saved[d.id].content.chars)]
           ELSE SealedBytes(d.content) = [utf8 |-> Utf8(saved[d.id].content.chars)]

C24_Witness ==
    /\ Len(loadRawDrafts(localDrafts)) = 2
    /\ loadRawDrafts(localDrafts)[1].isProtected
    /\ ~loadRawDrafts(localDrafts)[2].isProtected
    /\ ~isSessionUnlocked(sessionItem)


\* C25: a successful save under an id that is in the collection puts the
\* new record at the place of the old one and leaves every other place as
\* it was; a successful save under an id that is not in the collection
\* puts the new record in front of the records that were there, which stay
\* as they were.
C25_ReplaceInPlaceOrPrepend ==
    [][(/\ last'.op = "saveDraft"
        /\ ~OnlyWhiteSpace(last'.content)
        /\ last'.ret = Undefined)
           => LET before == loadRawDrafts(localDrafts)
                  after == loadRawDrafts(localDrafts')
                  id == last'.id
              IN  IF \E i \in 1 .. Len(before) : before[i].id = id
                  THEN /\ Len(after) = Len(before)
                       /\ \A i \in 1 .. Len(before) :
                              IF before[i].id = id
                              THEN after[i].id = id /\ after[i].lastUpdated = now
                              ELSE after[i] = before[i]
                  ELSE /\ Len(after) = Len(before) + 1
                       /\ after[1].id = id
                       /\ Tail(after) = before]_vars

C25_Witness ==
    /\ last.op = "saveDraft"
    /\ last.ret = Undefined
    /\ Len(loadRawDrafts(localDrafts)) = 3
    /\ loadRawDrafts(localDrafts)[3].id = last.id
    /\ loadRawDrafts(localDrafts)[3].lastUpdated = now
    /\ loadRawDrafts(localDrafts)[3].createdAt < now


\* C26: a listing holds one entry for each stored record, the entries are
\* in descending order of lastUpdated, and the stored collection is left
\* as it was, in order and in content.
C26_ListingSortedStoreUntouched ==
    [][last'.op = "getDrafts"
           => LET rawDrafts == loadRawDrafts(localDrafts)
                  list == last'.ret.list
              IN  /\ localDrafts' = localDrafts
                  /\ Len(list) = Len(rawDrafts)
                  /\ \A d \in Range(rawDrafts) :
                         Cardinality({i \in 1 .. Len(list) :
                                         /\ list[i].id = d.id
                                         /\ list[i].content = d.content
                                         /\ list[i].createdAt = d.createdAt
                                         /\ list[i].lastUpdated = d.lastUpdated
                                         /\ list[i].isProtected = d.isProtected}) = 1
                  /\ \A i, j \in 1 .. Len(list) :
                         i < j => list[i].lastUpdated >= list[j].lastUpdated]_vars

C26_Witness ==
    /\ last.op = "getDrafts"
    /\ Len(last.ret.list) = 2
    /\ last.ret.list[1].lastUpdated > last.ret.list[2].lastUpdated
    /\ loadRawDrafts(localDrafts)[1].id = last.ret.list[2].id


\* the records of a collection that the sweep run now would remove
Expired(drafts) ==
    {d \in Range(drafts) : Age(d) >= getRetentionPeriod(localSettings)}

\* C27: a sweep that finds no expired record writes nothing: the stored
\* item is left as it was, also when there was none; a sweep that removes
\* a record writes the remaining collection.
C27_SweepWritesOnlyOnRemoval ==
    [][last'.op = "cleanupOldDrafts"
           => IF Expired(loadRawDrafts(localDrafts)) = {}
              THEN localDrafts' = localDrafts
              ELSE /\ localDrafts' # null
                   /\ Len(loadRawDrafts(localDrafts')) < Len(loadRawDrafts(localDrafts))]_vars

C27_Witness ==
    /\ last.op = "cleanupOldDrafts"
    /\ last.removed = 0
    /\ localDrafts = null
    /\ getRetentionPeriod(localSettings) = 1


\* C28: deleteDraft(id) returns normally and leaves the collection without
\* the record of that id, every other record as it was and in the same
\* order; when no record has the id the records are as before.
C28_DeleteRemovesOnlyId ==
    [][last'.op = "deleteDraft"
           => /\ last'.ret = Undefined
              /\ loadRawDrafts(localDrafts') =
                     SelectSeq(loadRawDrafts(localDrafts), LAMBDA d : d.id # last'.id)]_vars

C28_Witness ==
    /\ last.op = "deleteDraft"
    /\ last.id = "d2"
    /\ Len(loadRawDrafts(localDrafts)) = 2
    /\ loadRawDrafts(localDrafts)[1].id = "d3"
    /\ loadRawDrafts(localDrafts)[2].id = "d1"


\* C29: verifyPassword called while no password record exists returns
\* false, for every password, raises nothing and leaves the session item
\* as it was.
C29_NoRecordVerifiesFalse ==
    [][(last'.op = "verifyPassword" /\ idbPasswordHash = null)
           => /\ last'.ret = Bool(FALSE)
              /\ sessionItem' = sessionItem
              /\ idbPasswordHash' = null]_vars

C29_Witness ==
    /\ last.op = "verifyPassword"
    /\ idbPasswordHash = null
    /\ last.ret = Bool(FALSE)
    /\ HasDraft("d1")


\* C30: in every state, also between the steps of interleaved first-time
\* getDeviceKey() calls, a non-empty device-key cache holds the persisted
\* device key, so text sealed with the cached key opens with the key that
\* getDeviceKey() imports from the database after a restart.
C30_CacheOpensAfterRestart ==
    cachedDeviceKey # null
        => /\ idbDeviceKey # null
           /\ \A iv \in IVs :
                  decrypt(encrypt(Str(<<97>>), cachedDeviceKey, iv),
                          importKey(idbDeviceKey)) = Str(<<97>>)


\* C31: while the session is locked, getDraftContent(id, flag) does not
\* return the text of a draft that was saved as protected, whichever value
\* the caller passes as flag: with the flag set it returns null, without it
\* the text it returns is the password envelope.
C31_LockedReadHidesProtected ==
    (/\ last.op = "getDraftContent"
     /\ ~isSessionUnlocked(sessionItem)
     /\ saved[last.id] # null
     /\ saved[last.id].isProtected)
        => /\ last.ret # saved[last.id].content
           /\ last.isProtected => last.ret = null
           /\ ~last.isProtected => IsBase64(last.ret)

C31_Witness ==
    /\ last.op = "getDraftContent"
    /\ ~last.isProtected
    /\ ~isSessionUnlocked(sessionItem)
    /\ saved[last.id] # null
    /\ saved[last.id].isProtected
    /\ IsBase64(last.ret)

C31_WitnessFlagSet ==
    /\ last.op = "getDraftContent"
    /\ last.isProtected
    /\ ~isSessionUnlocked(sessionItem)
    /\ saved[last.id] # null
    /\ saved[last.id].isProtected
    /\ last.ret = null


\* C32: whenever getDraftContent(id, flag) returns a text, the text is the
\* one most recently saved under id, for every value of the flag, also one
\* that differs from the isProtected stored with the record.
C32_ReturnedTextIsSaved ==
    (/\ last.op = "getDraftContent"
     /\ last.ret # null
     /\ ~Failed(last.ret)
     /\ saved[last.id] # null)
        => last.ret = saved[last.id].content

\* the same for the texts that do not start with U+FEFF, read with the
\* flag that the record was saved with
C32_MatchingFlagNoBOM ==
    (/\ last.op = "getDraftContent"
     /\ last.ret # null
     /\ ~Failed(last.ret)
     /\ saved[last.id] # null
     /\ last.isProtected = saved[last.id].isProtected
     /\ saved[last.id].content # Str(<<65279, 97>>))
        => last.ret = saved[last.id].content

\* the same for the texts that do not start with U+FEFF, read with any flag
C32_AnyFlagNoBOM ==
    (/\ last.op = "getDraftContent"
     /\ last.ret # null
     /\ ~Failed(last.ret)
     /\ saved[last.id] # null
     /\ saved[last.id].content # Str(<<65279, 97>>))
        => last.ret = saved[last.id].content


\* the snippet stored with a record, as the device key opens it
StoredSnippet(d) == decrypt(d.snippet, importKey(idbDeviceKey))

\* a step that saves id as protected over a record stored unprotected
ProtectedResave(id) ==
    /\ HasDraft(id)
    /\ ~DraftOf(id).isProtected
    /\ last'.op = "saveDraft"
    /\ last'.id = id
    /\ last'.isProtected
    /\ last'.ret = Undefined
    /\ ~IsBlank(last'.content)

\* C33: the snippet stored with a record whose isProtected is true is the
\* fixed placeholder, the same for every note text, so the snippets that
\* getDrafts lists for protected records do not depend on their text in
\* either session state; and a protected save over a record that was stored
\* unprotected replaces the snippet taken from the text by the placeholder.
C33_ProtectedSnippetIsPlaceholder ==
    /\ [](\A d \in Range(loadRawDrafts(localDrafts)) :
              d.isProtected
                  => /\ StoredSnippet(d) = ProtectedNote
                     /\ \A content \in Texts :
                            StoredSnippet(d) = SnippetText(content, TRUE))
    /\ [](last.op = "getDrafts"
              => \A d \in Range(last.ret.list) :
                     d.isProtected
                         => \A content \in Texts :
                                d.snippet = SnippetText(content, TRUE))
    /\ [][\A id \in CoreIds :
              ProtectedResave(id)
                  => LET d == Stored(loadRawDrafts(localDrafts'), id)
                     IN  /\ d.isProtected
                         /\ decrypt(d.snippet, importKey(idbDeviceKey')) = ProtectedNote
                         /\ StoredSnippet(DraftOf(id)) # ProtectedNote]_vars

C33_Witness ==
    /\ last.op = "getDrafts"
    /\ Len(last.ret.list) = 2
    /\ \A d \in Range(last.ret.list) :
           /\ d.isProtected
           /\ d.snippet = ProtectedNote
    /\ saved["d1"].content # saved["d2"].content
    /\ \A d \in Range(loadRawDrafts(localDrafts)) : StoredSnippet(d) = ProtectedNote

\* "no step is a protected save over a record stored unprotected": TLC
\* refutes it, which shows that the steps of the last conjunct occur
C33_NeverResaved == [][\A id \in CoreIds : ~ProtectedResave(id)]_vars


\* the marker of the password record opened with a given key
MarkerOpensWithKey(key, hashData) ==
    LET decrypted == AesGcmDecrypt(base64ToBuffer(hashData.iv), key,
                                   base64ToBuffer(hashData.encrypted))
    IN  ~Failed(decrypted) /\ TextDecode(decrypted) = VerificationText

\* C34: with the operations called one after the other, whenever the
\* session is unlocked a password record exists and the key derived from the
\* password and salt that the session holds opens the marker of that record;
\* a protected save therefore seals the text with the key of the password
\* configured last.
C34_SessionKeyOpensMarker ==
    /\ isSessionUnlocked(sessionItem)
           => /\ idbPasswordHash # null
              /\ sessionItem.password = configured
              /\ sessionItem.salt = idbPasswordHash.salt
              /\ MarkerOpensWithKey(getSessionPasswordKey(sessionItem), idbPasswordHash)
    /\ (/\ last.op = "saveDraft"
        /\ last.isProtected
        /\ last.ret = Undefined
        /\ ~IsBlank(last.content))
           => /\ HasDraft(last.id)
              /\ SealKey(decrypt(DraftOf(last.id).content, importKey(idbDeviceKey)))
                     = deriveKeyFromPassword(configured,
                                             base64ToBuffer(idbPasswordHash.salt))

C34_Witness ==
    /\ last.op = "saveDraft"
    /\ last.isProtected
    /\ last.ret = Undefined
    /\ ~IsBlank(last.content)
    /\ nSalts = 2
    /\ isSessionUnlocked(sessionItem)
    /\ MarkerOpensWithKey(getSessionPasswordKey(sessionItem), idbPasswordHash)


OneRecordPerId(drafts) ==
    \A i, j \in 1 .. Len(drafts) : drafts[i].id = drafts[j].id => i = j

\* C35: starting from an empty collection, after any interleaving of the
\* steps of saveDraft, deleteDraft and cleanupOldDrafts calls the stored
\* collection holds at most one record per id, and so does every copy of
\* the collection that a suspended call holds.
C35_OneRecordPerId ==
    /\ OneRecordPerId(loadRawDrafts(localDrafts))
    /\ \A p \in Procs :
           "rawDrafts" \in DOMAIN task[p] => OneRecordPerId(task[p].rawDrafts)

C35_Witness ==
    /\ Len(loadRawDrafts(localDrafts)) = 2
    /\ \E p \in Procs :
           /\ task[p].pc = "done"
           /\ task[p].op = "saveDraft"
           /\ task[p].wrote
           /\ \E q \in Procs \ {p} :
                  /\ task[q].pc = "save_sealed"
                  /\ task[q].id = task[p].id
                  /\ task[q].rawDrafts # loadRawDrafts(localDrafts)


\* C36: once setRetentionPeriod(ms) has returned, getRetentionPeriod()
\* returns ms, whatever the item under SETTINGS_KEY held before the call:
\* nothing, a settings object, or a malformed text.
C36_SetThenGet ==
    last.op = "setRetentionPeriod"
        => getRetentionPeriod(localSettings) = last.ms

\* the same when the item held nothing or the JSON text of an object
\* (setRetentionPeriod leaves any other item as it was)
C36_SetThenGetOverObject ==
    (/\ last.op = "setRetentionPeriod"
     /\ localSettings # null
     /\ "json" \in DOMAIN localSettings)
        => getRetentionPeriod(localSettings) = last.ms


ReadOnlyOps == {"lockSession", "verifyPassword", "isPasswordSetup",
                "isSessionUnlocked", "getDrafts", "getDraftContent"}

\* C37: lockSession, verifyPassword, isPasswordSetup, isSessionUnlocked,
\* getDrafts and getDraftContent leave the stored draft collection and the
\* persisted device key as they were; lockSession, getDrafts and
\* getDraftContent leave the password record as it was too; the password
\* record changes in setupPassword steps only.
C37_ReadersWriteNothing ==
    [][/\ last'.op \in ReadOnlyOps
           => /\ localDrafts' = localDrafts
              /\ idbDeviceKey' = idbDeviceKey
       /\ last'.op \in {"lockSession", "getDrafts", "getDraftContent"}
           => idbPasswordHash' = idbPasswordHash
       /\ idbPasswordHash' # idbPasswordHash
           => last'.op = "setupPassword"]_vars

C37_Witness ==
    /\ last.op = "getDraftContent"
    /\ last.found
    /\ last.ret = null
    /\ idbPasswordHash # null
    /\ ~isSessionUnlocked(sessionItem)
    /\ idbDeviceKey # null

====
